---- MODULE Spec2Model ----
(***************************************************************************)
(* A model of p5/core/primitives.py: the shape constructors of p5 (point,  *)
(* line, triangle, quad, rect, square, arc, ellipse, circle), the two      *)
(* module-level drawing modes, the draw-on-return wrapper, draw_shape and  *)
(* create_shape.                                                           *)
(*                                                                         *)
(* Numbers.  Python's floats are modelled by integers that count quarters  *)
(* of a unit (Num(10) is the Python value 10), so that every halving the   *)
(* code performs on the inputs used here is exact.                         *)
(*                                                                         *)
(* Arguments.  A positional argument is either a scalar or a tuple of      *)
(* scalars; both are records [pt, c], c holding the scalar(s).             *)
(*                                                                         *)
(* Results.  A call ends in an outcome: the returned shape or the          *)
(* exception raised, together with the shapes handed to                    *)
(* p5.renderer.render while the call ran, in order.                        *)
(***************************************************************************)
EXTENDS Integers, Sequences, FiniteSets, TLC

VARIABLES
    _rect_mode,       \* module global _rect_mode
    _ellipse_mode,    \* module global _ellipse_mode
    stroke_cap,       \* p5.renderer.stroke_cap
    stroke_weight,    \* p5.renderer.stroke_weight (quarter units)
    transform_matrix, \* p5.renderer.transform_matrix, a uniform scale num/den
    call,             \* the most recent call of the API
    outcome,          \* what that call returned or raised, and what it rendered
    rectModeArg,      \* history: argument of the most recent rect_mode call
    ellipseModeArg,   \* history: argument of the most recent ellipse_mode call
    bezier_resolution, \* curves.bezier_resolution
    curve_resolution, \* curves.curve_resolution
    held,             \* the Arc the sketch keeps a reference to, if any
    heldTransform     \* history: transform_matrix when the held Arc was built

vars == <<_rect_mode, _ellipse_mode, stroke_cap, stroke_weight,
          transform_matrix, call, outcome, rectModeArg, ellipseModeArg,
          bezier_resolution, curve_resolution, held, heldTransform>>

-----------------------------------------------------------------------------
(* Values *)

Num(n) == 4 * n

Half(v) == v \div 2

Scalar(v) == [pt |-> FALSE, c |-> <<v>>]

Tuple(c) == [pt |-> TRUE, c |-> c]

None == "None"

\* pmath.Point(x, y, z=0)
Point(c) == IF Len(c) = 2 THEN <<c[1], c[2], 0>> ELSE <<c[1], c[2], c[3]>>

\* args[:n] and args[n:] of a tuple of scalars, as coordinates
Coords(args) == [i \in 1..Len(args) |-> args[i].c[1]]

NoShape == [cls |-> None]

PShape(vertices, shape_type) ==
    [cls |-> "PShape", shape_type |-> shape_type,
     vertices |-> vertices, children |-> <<>>]

Returns(shape, rendered) ==
    [status |-> "ok", msg |-> "", shape |-> shape, rendered |-> rendered]

Raises(exc, msg) ==
    [status |-> exc, msg |-> msg, shape |-> NoShape, rendered |-> <<>>]

-----------------------------------------------------------------------------
(* draw_shape and the draw-on-return wrapper *)

RECURSIVE draw_children(_, _)
RECURSIVE draw_shape(_)

\* for child_shape in shape.children[i..]: draw_shape(child_shape)
draw_children(children, i) ==
    IF i > Len(children) THEN <<>>
    ELSE draw_shape(children[i]) \o draw_children(children, i + 1)

\* draw_shape without the early return for a Geometry
draw_shape_no_return(shape) ==
    <<shape>> \o draw_children(shape.children, 1)

\* the shapes draw_shape(shape) hands to p5.renderer.render, in order
draw_shape(shape) ==
    <<shape>> \o (IF shape.cls = "Geometry" THEN <<>>
                  ELSE draw_children(shape.children, 1))

\* a wrapper that draws whatever func left behind, also when func raised
_draw_always(res) ==
    [res EXCEPT !.rendered = @ \o <<res.shape>>]

\* wrapped(*args): s = func(*args); draw_shape(s); return s
_draw_on_return(res) ==
    IF res.status = "ok"
    THEN [res EXCEPT !.rendered = @ \o draw_shape(res.shape)]
    ELSE res

-----------------------------------------------------------------------------
(* line, triangle, quad *)

line_raw(args) ==
    IF Len(args) \in {2}
    THEN Returns(PShape(<<Point(args[1].c), Point(args[2].c)>>, "LINES"), <<>>)
    ELSE IF Len(args) \in {4, 6}
    THEN LET h == Len(args) \div 2
             c == Coords(args)
         IN Returns(PShape(<<Point(SubSeq(c, 1, h)),
                             Point(SubSeq(c, h + 1, 2 * h))>>, "LINES"), <<>>)
    ELSE Raises("ValueError", "Unexpected number of arguments passed to line()")

line(args) == _draw_on_return(line_raw(args))

triangle_raw(args) ==
    IF Len(args) = 6
    THEN LET c == Coords(args)
         IN Returns(PShape(<<Point(SubSeq(c, 1, 2)), Point(SubSeq(c, 3, 4)),
                             Point(SubSeq(c, 5, 6))>>, "TRIANGLES"), <<>>)
    ELSE IF Len(args) = 3
    THEN Returns(PShape(<<Point(args[1].c), Point(args[2].c),
                          Point(args[3].c)>>, "TRIANGLES"), <<>>)
    ELSE Raises("ValueError", "Unexpected number of arguments passed to triangle()")

triangle(args) == _draw_on_return(triangle_raw(args))

quad_raw(args) ==
    IF Len(args) = 8
    THEN LET c == Coords(args)
         IN Returns(PShape(<<Point(SubSeq(c, 1, 2)), Point(SubSeq(c, 3, 4)),
                             Point(SubSeq(c, 5, 6)), Point(SubSeq(c, 7, 8))>>,
                           "QUADS"), <<>>)
    ELSE IF Len(args) = 4
    THEN Returns(PShape(<<Point(args[1].c), Point(args[2].c),
                          Point(args[3].c), Point(args[4].c)>>, "QUADS"), <<>>)
    ELSE Raises("ValueError", "Unexpected number of arguments passed to quad()")

quad(args) == _draw_on_return(quad_raw(args))

-----------------------------------------------------------------------------
(* bezier, curve *)

\* curves.bezier_point / curves.curve_point (start, ..., stop, t), cut to its
\* first three coordinates: held as the evaluator, the four control points
\* and t = i / steps as the pair <<i, steps>>
CurvePoint(fn, points, i, steps) ==
    [fn |-> fn, points |-> points, t |-> <<i, steps>>]

\* for i in range(steps + 1): t = i / steps; vertices.append(p[:3])
CurveVertices(fn, points, steps) ==
    [k \in 1..(steps + 1) |-> CurvePoint(fn, points, k - 1, steps)]

\* the same loop over range(steps)
CurveVerticesShort(fn, points, steps) ==
    [k \in 1..steps |-> CurvePoint(fn, points, k - 1, steps)]

\* the four control points of bezier and curve, for 4, 8 or 12 arguments
ControlPoints(args) ==
    IF Len(args) = 4
    THEN <<args[1].c, args[2].c, args[3].c, args[4].c>>
    ELSE LET d == Len(args) \div 4
             c == Coords(args)
         IN [k \in 1..4 |-> SubSeq(c, (k - 1) * d + 1, k * d)]

\* lines 263-280 and 338-354: fn is "bezier" or "curve", evaluator the name
\* of its point evaluator, steps the resolution of its kind
path_raw(fn, evaluator, args, steps) ==
    IF Len(args) \notin {4, 8, 12}
    THEN Raises("ValueError",
                IF fn = "bezier"
                THEN "Unexpected number of arguments passed to bezier()"
                ELSE "Unexpected number of arguments passed to curve()")
    ELSE IF steps = 0
    THEN Raises("ZeroDivisionError", "division by zero")
    ELSE Returns(PShape(CurveVertices(evaluator, ControlPoints(args), steps),
                        "LINE_STRIP"), <<>>)

\* bezier whose loop stops one step early
bezier_short(args, steps) ==
    IF Len(args) \notin {4, 8, 12}
    THEN Raises("ValueError", "Unexpected number of arguments passed to bezier()")
    ELSE Returns(PShape(CurveVerticesShort("bezier_point", ControlPoints(args),
                                           steps), "LINE_STRIP"), <<>>)

bezier_raw(args, steps) == path_raw("bezier", "bezier_point", args, steps)

bezier(args, steps) == _draw_on_return(bezier_raw(args, steps))

curve_raw(args, steps) == path_raw("curve", "curve_point", args, steps)

curve(args, steps) == _draw_on_return(curve_raw(args, steps))

-----------------------------------------------------------------------------
(* rect, square, rect_mode *)

\* lines 533-537: the four corners, handed to quad
rect_corners(corner, width, height) ==
    LET p1 == Point(corner)
        p2 == <<p1[1] + width, p1[2], p1[3]>>
        p3 == <<p2[1], p2[2] + height, p2[3]>>
        p4 == <<p1[1], p3[2], p3[3]>>
    IN quad(<<Tuple(p1), Tuple(p2), Tuple(p3), Tuple(p4)>>)

\* a rect that reads its arguments as corner, width, height in every mode
rect_body_any_mode(coordinate, rest, mode, rm) ==
    rect_corners(coordinate, rest[1].c[1], rest[2].c[1])

\* lines 508-531, with coordinate and the remaining args already split;
\* rm is the value of _rect_mode
rect_body(coordinate, rest, mode, rm) ==
    LET m == IF mode = None THEN rm ELSE mode
    IN CASE m = "CORNER" ->
              rect_corners(coordinate, rest[1].c[1], rest[2].c[1])
         [] m = "CENTER" ->
              LET center == Point(coordinate)
                  width == rest[1].c[1]
                  height == rest[2].c[1]
              IN rect_corners(<<center[1] - Half(width),
                                center[2] - Half(height), center[3]>>,
                              width, height)
         [] m = "RADIUS" ->
              LET center == Point(coordinate)
                  half_width == rest[1].c[1]
                  half_height == rest[2].c[1]
              IN rect_corners(<<center[1] - half_width,
                                center[2] - half_height, center[3]>>,
                              2 * half_width, 2 * half_height)
         [] m = "CORNERS" ->
              \* corner_2, = args unpacks a tuple of exactly one element
              IF Len(rest) = 1
              THEN LET corner == Point(coordinate)
                       corner_2 == Point(rest[1].c)
                   IN rect_corners(corner, corner_2[1] - corner[1],
                                   corner_2[2] - corner[2])
              ELSE IF Len(rest) > 1
              THEN Raises("ValueError", "too many values to unpack (expected 1)")
              ELSE Raises("ValueError", "not enough values to unpack (expected 1, got 0)")
         [] OTHER -> Raises("ValueError", "Unknown rect mode")

rect(args, mode, rm) ==
    IF Len(args) = 4
    THEN rect_body(Coords(SubSeq(args, 1, 2)), SubSeq(args, 3, 4), mode, rm)
    ELSE IF Len(args) = 3
    THEN rect_body(args[1].c, SubSeq(args, 2, 3), mode, rm)
    ELSE Raises("ValueError", "Unexpected number of arguments passed to rect()")

square(args, mode, rm) ==
    IF Len(args) \notin {2, 3}
    THEN Raises("ValueError", "Unexpected number of arguments passed to square()")
    ELSE LET coordinate == IF Len(args) = 2 THEN args[1]
                           ELSE Tuple(Coords(SubSeq(args, 1, 2)))
             side_length == args[Len(args)]
             m == IF mode = None THEN rm ELSE mode
         IN IF m = "CORNERS"
            THEN Raises("ValueError", "Cannot draw square with CORNERS mode")
            ELSE rect(<<coordinate, side_length, side_length>>, m, rm)

-----------------------------------------------------------------------------
(* Arc and its tessellation *)

\* len(SINCOS): the sine/cosine table holds one entry per tenth of a degree
SINCOS_LENGTH == 3600

MIN_POINT_ACCURACY == 20

MAX_POINT_ACCURACY == 200

POINT_ACCURACY_FACTOR == 10

\* Angles are integers counting half table steps: a full turn, 2 * math.pi
TwoPi == 2 * SINCOS_LENGTH

\* int(x) of Python for the quotient a / b, b > 0: truncation towards zero
IntDiv(a, b) == IF a >= 0 THEN a \div b ELSE -((-a) \div b)

Min(a, b) == IF a <= b THEN a ELSE b

Max(a, b) == IF a >= b THEN a ELSE b

\* The vertex (c1x + rx * SINCOS[i][1], c1y + ry * SINCOS[i][0], 0), held as
\* the centre, the radii and the table index it is computed from.
SinCosVertex(center, radii, i) ==
    [c |-> <<center[1], center[2]>>, r |-> <<radii[1], radii[2]>>, i |-> i]

\* The vertex (c1x, c1y, 0)
CenterVertex(center) ==
    [c |-> <<center[1], center[2]>>, r |-> <<0, 0>>, i |-> 0]

\* 16 * |sdiff|^2 (lines 101-107): sdiff = transform_matrix . (rx, ry, 0, 0),
\* the matrix being the uniform scale tm.num / tm.den and the radii quarters
ProjectedSq(radii, tm) ==
    (tm.num * tm.num * (radii[1] * radii[1] + radii[2] * radii[2]))
        \div (tm.den * tm.den)

\* int(size_acc), line 108-110, for a value below MAX_POINT_ACCURACY:
\* k <= sqrt(n / 16) * 2 * pi / 10  iff  (400 / pi^2) * k^2 <= n, and
\* 400 / pi^2 = 40.528...; m is the floor of 1000 * n.
IntSizeAcc(m) ==
    CHOOSE k \in 0..MAX_POINT_ACCURACY :
        /\ 40528 * k * k <= m
        /\ k < MAX_POINT_ACCURACY => 40528 * (k + 1) * (k + 1) > m

\* 1000 * 16 * |sdiff|^2, capped where int(size_acc) reaches MAX_POINT_ACCURACY
SizeAccArg(radii, tm) ==
    LET cap == 40528 * MAX_POINT_ACCURACY * MAX_POINT_ACCURACY
    IN IF ProjectedSq(radii, tm) >= cap \div 1000
       THEN cap
       ELSE (1000 * tm.num * tm.num
                  * (radii[1] * radii[1] + radii[2] * radii[2]))
                \div (tm.den * tm.den)

\* the clamp with min and max exchanged
Acc_swapped(radii, tm) ==
    Max(MAX_POINT_ACCURACY,
        Min(MIN_POINT_ACCURACY, IntSizeAcc(SizeAccArg(radii, tm))))

\* acc = min(MAX_POINT_ACCURACY, max(MIN_POINT_ACCURACY, int(size_acc)))
Acc(radii, tm) ==
    Min(MAX_POINT_ACCURACY,
        Max(MIN_POINT_ACCURACY, IntSizeAcc(SizeAccArg(radii, tm))))

\* inc = int(len(SINCOS) / acc)
Inc(radii, tm) == SINCOS_LENGTH \div Acc(radii, tm)

\* int((angle / (math.pi * 2)) * sclen)
AngleIndex(angle) == IntDiv(angle * SINCOS_LENGTH, TwoPi)

\* a range that also visits stop when the walk lands on it
Range_inclusive(start, stop, step) ==
    LET n == IF stop >= start THEN (stop - start) \div step + 1 ELSE 0
    IN [k \in 1..n |-> start + (k - 1) * step]

\* list(range(start, stop, step)), step > 0
Range(start, stop, step) ==
    LET n == IF stop > start THEN (stop - start + step - 1) \div step ELSE 0
    IN [k \in 1..n |-> start + (k - 1) * step]

\* a tessellation that never appends the closing vertex
_tessellate_unclosed(center, radii, start_angle, stop_angle, arc_mode, tm) ==
    LET inc == Inc(radii, tm)
        start_index == AngleIndex(start_angle)
        end_index == AngleIndex(stop_angle)
        idxs == Range(start_index, end_index, inc)
        first == IF arc_mode \in {"PIE", None}
                 THEN <<CenterVertex(center)>> ELSE <<>>
        walk == [k \in 1..Len(idxs) |->
                    SinCosVertex(center, radii, idxs[k] % SINCOS_LENGTH)]
    IN first \o walk
       \o <<SinCosVertex(center, radii, end_index % SINCOS_LENGTH)>>

\* Arc._tessellate (lines 93-132): the vertex list
_tessellate(center, radii, start_angle, stop_angle, arc_mode, tm) ==
    LET inc == Inc(radii, tm)
        sclen == SINCOS_LENGTH
        start_index == AngleIndex(start_angle)
        end_index == AngleIndex(stop_angle)
        idxs == Range(start_index, end_index, inc)
        first == IF arc_mode \in {"PIE", None}
                 THEN <<CenterVertex(center)>> ELSE <<>>
        walk == [k \in 1..Len(idxs) |->
                    SinCosVertex(center, radii, idxs[k] % sclen)]
        vertices == first \o walk
                    \o <<SinCosVertex(center, radii, end_index % sclen)>>
    IN IF arc_mode = "CHORD" \/ arc_mode = "PIE"
       THEN Append(vertices, vertices[1])
       ELSE vertices

\* an Arc tessellated as if the transform were the identity
Arc_untransformed(center, radii, start_angle, stop_angle, mode, tm) ==
    [cls |-> "Arc",
     shape_type |-> IF mode \in {"OPEN", "CHORD"} THEN "TESS" ELSE "TRIANGLE_FAN",
     vertices |-> _tessellate(center, radii, start_angle, stop_angle, mode,
                              [num |-> 1, den |-> 1]),
     children |-> <<>>,
     _center |-> center, _radii |-> radii,
     _start_angle |-> start_angle, _stop_angle |-> stop_angle,
     arc_mode |-> mode]

\* Arc.__init__ (lines 77-91)
Arc(center, radii, start_angle, stop_angle, mode, tm) ==
    [cls |-> "Arc",
     shape_type |-> IF mode \in {"OPEN", "CHORD"} THEN "TESS" ELSE "TRIANGLE_FAN",
     vertices |-> _tessellate(center, radii, start_angle, stop_angle, mode, tm),
     children |-> <<>>,
     _center |-> center, _radii |-> radii,
     _start_angle |-> start_angle, _stop_angle |-> stop_angle,
     arc_mode |-> mode]

-----------------------------------------------------------------------------
(* arc, ellipse, circle, ellipse_mode *)

\* lines 652-669, with the arguments already split; em is _ellipse_mode
arc_body(coordinate, width, height, start_angle, stop_angle, mode, ellipse_mode, em, tm) ==
    LET emode == IF ellipse_mode = None THEN em ELSE ellipse_mode
    IN CASE emode = "CORNER" ->
              LET corner == Point(coordinate)
                  dim == Point(<<Half(width), Half(height)>>)
                  center == <<corner[1] + dim[1], corner[2] + dim[2], corner[3]>>
              IN Returns(Arc(center, dim, start_angle, stop_angle, mode, tm), <<>>)
         [] emode = "CENTER" ->
              LET center == Point(coordinate)
                  dim == Point(<<Half(width), Half(height)>>)
              IN Returns(Arc(center, dim, start_angle, stop_angle, mode, tm), <<>>)
         [] emode = "RADIUS" ->
              LET center == Point(coordinate)
                  dim == Point(<<width, height>>)
              IN Returns(Arc(center, dim, start_angle, stop_angle, mode, tm), <<>>)
         [] OTHER -> Raises("ValueError", "Unknown arc mode")

arc_raw(args, mode, ellipse_mode, em, tm) ==
    IF Len(args) = 5
    THEN arc_body(args[1].c, args[2].c[1], args[3].c[1], args[4].c[1],
                  args[5].c[1], mode, ellipse_mode, em, tm)
    ELSE IF Len(args) = 6
    THEN arc_body(Coords(SubSeq(args, 1, 2)), args[3].c[1], args[4].c[1],
                  args[5].c[1], args[6].c[1], mode, ellipse_mode, em, tm)
    ELSE Raises("ValueError", "Unexpected number of arguments passed to arc()")

arc(args, mode, ellipse_mode, em, tm) ==
    _draw_on_return(arc_raw(args, mode, ellipse_mode, em, tm))

\* lines 717-729, with coordinate and the remaining args already split
ellipse_body(coordinate, rest, mode, em, tm) ==
    LET m == IF mode = None THEN em ELSE mode
    IN IF m = "CORNERS"
       THEN \* corner_2, = args unpacks a tuple of exactly one element
            IF Len(rest) = 1
            THEN LET corner == Point(coordinate.c)
                     corner_2 == Point(rest[1].c)
                 IN arc(<<coordinate, Scalar(corner_2[1] - corner[1]),
                          Scalar(corner_2[2] - corner[2]),
                          Scalar(0), Scalar(TwoPi)>>, "CHORD", "CORNER", em, tm)
            ELSE Raises("ValueError", "too many values to unpack (expected 1)")
       ELSE arc(<<coordinate, rest[1], rest[2], Scalar(0), Scalar(TwoPi)>>,
                "CHORD", m, em, tm)

ellipse(args, mode, em, tm) ==
    IF Len(args) = 3
    THEN ellipse_body(args[1], SubSeq(args, 2, 3), mode, em, tm)
    ELSE IF Len(args) = 4
    THEN ellipse_body(Tuple(Coords(SubSeq(args, 1, 2))), SubSeq(args, 3, 4),
                      mode, em, tm)
    ELSE Raises("ValueError", "Unexpected number of arguments passed to ellipse()")

\* circle without the CORNERS check
circle_no_check(args, mode, em, tm) ==
    IF Len(args) \notin {2, 3}
    THEN Raises("ValueError", "Unexpected number of arguments passed to circle()")
    ELSE LET coordinate == IF Len(args) = 2 THEN args[1]
                           ELSE Tuple(Coords(SubSeq(args, 1, 2)))
             radius == args[Len(args)]
             m == IF mode = None THEN em ELSE mode
         IN ellipse(<<coordinate, radius, radius>>, m, em, tm)

circle(args, mode, em, tm) ==
    IF Len(args) \notin {2, 3}
    THEN Raises("ValueError", "Unexpected number of arguments passed to circle()")
    ELSE LET coordinate == IF Len(args) = 2 THEN args[1]
                           ELSE Tuple(Coords(SubSeq(args, 1, 2)))
             radius == args[Len(args)]
             m == IF mode = None THEN em ELSE mode
         IN IF m = "CORNERS"
            THEN Raises("ValueError", "Cannot create circle in CORNERS mode")
            ELSE ellipse(<<coordinate, radius, radius>>, m, em, tm)

-----------------------------------------------------------------------------
(* point *)

\* point(x, y, z=0) (lines 150-156); the renderer's stroke cap and weight, the
\* two modes and the transform are what the call reads
point(args, cap, weight, rm, em, tm) ==
    LET p == Point(Coords(args))
    IN IF cap = "SQUARE"
       THEN Raises("ValueError", "Unknown stroke_cap value")
       ELSE IF cap = "PROJECT"
       THEN square(<<Tuple(p), Scalar(weight)>>, "CENTER", rm)
       ELSE IF cap = "ROUND"
       THEN circle(<<Tuple(p), Scalar(Half(weight))>>, "CENTER", em, tm)
       ELSE Raises("ValueError", "Unknown stroke_cap value")

-----------------------------------------------------------------------------
(* create_shape *)

\* create_shape(kind, *args, **kwargs) (lines 842-856); kw holds the keyword
\* arguments mode and ellipse_mode, None when absent
create_shape(kind, args, kw, cap, weight, rm, em, tm) ==
    CASE kind = "arc" -> arc(args, kw.mode, kw.ellipse_mode, em, tm)
      [] kind = "circle" -> circle(args, kw.mode, em, tm)
      [] kind = "ellipse" -> ellipse(args, kw.mode, em, tm)
      [] kind = "line" -> line(args)
      [] kind = "point" -> point(args, cap, weight, rm, em, tm)
      [] kind = "quad" -> quad(args)
      [] kind = "rect" -> rect(args, kw.mode, rm)
      [] kind = "square" -> square(args, kw.mode, rm)
      [] kind = "triangle" -> triangle(args)
      [] kind = None -> Returns(PShape(<<>>, None), <<>>)
      [] OTHER -> Raises("KeyError", kind)

-----------------------------------------------------------------------------
(* rect_mode, ellipse_mode *)

\* rect_mode whose assignment binds a local name (no global statement)
rect_mode_local(mode, rm) == rm

\* rect_mode(mode): the new value of _rect_mode
rect_mode(mode, rm) == mode

\* ellipse_mode(mode): the new value of _ellipse_mode
ellipse_mode(mode, em) == mode

-----------------------------------------------------------------------------
(* Inputs *)

\* the largest number of nodes of a shape tree handed to draw_shape
MaxNodes == 4

\* how many argument counts below and above the accepted ones are tried
ExtraArgs == 1

Modes == {"CORNER", "CORNERS", "CENTER", "RADIUS"}

\* the values a mode is given: the four modes and a word that is none of them
AnyMode == Modes \cup {"DIAGONAL"}

\* the mode keyword of a constructor: absent, or any of these values
KwModes == AnyMode \cup {None}

ArcModes == {None, "OPEN", "CHORD", "PIE"}

StrokeCaps == {"SQUARE", "ROUND", "PROJECT", "BUTT"}

StrokeWeights == {Num(1), Num(3)}

\* transform scales 0.01, 1, 10 and 100
Scales == {[num |-> 1, den |-> 100], [num |-> 1, den |-> 1],
           [num |-> 10, den |-> 1], [num |-> 100, den |-> 1]}

Points2D == {<<Num(0), Num(0)>>, <<Num(10), Num(10)>>}

Points3D == {<<Num(1), Num(2), Num(3)>>}

Dims == {<<Num(10), Num(10)>>, <<Num(4), Num(6)>>}

Sides == {Num(5), Num(10), Num(50)}

Kw(m, e) == [mode |-> m, ellipse_mode |-> e]

\* n scalar arguments 1, 2, ..., n
Scalars(n) == [i \in 1..n |-> Scalar(Num(i))]

\* the argument counts tried for a function that accepts lo..hi arguments
Counts(lo, hi) == {n \in (lo - ExtraArgs)..(hi + ExtraArgs) : n >= 0}

\* One argument list per form of rect and ellipse: (coordinate, w, h),
\* (corner, opposite corner), and scalars of every count but 3, (x, y, w, h)
\* among them.
BoxForms ==
    {<<Tuple(<<Num(10), Num(10)>>), Scalar(Num(4)), Scalar(Num(6))>>,
     <<Tuple(<<Num(0), Num(0)>>), Tuple(<<Num(10), Num(10)>>)>>}
    \cup {Scalars(n) : n \in Counts(3, 4) \ {3}}

\* One argument list per form of square and circle: (coordinate, s), and
\* scalars of every count but 2, (x, y, s) among them.
SideForms ==
    {<<Tuple(<<Num(10), Num(10)>>), Scalar(Num(4))>>}
    \cup {Scalars(n) : n \in Counts(2, 3) \ {2}}

\* One argument list per form of arc: (coordinate, w, h, start, stop), and
\* scalars of every count but 5, (x, y, w, h, start, stop) among them.
ArcForms ==
    {<<Tuple(<<Num(10), Num(10)>>), Scalar(Num(4)), Scalar(Num(6)),
       Scalar(0), Scalar(TwoPi \div 4)>>}
    \cup {Scalars(n) : n \in Counts(5, 6) \ {5}}

\* argument lists of rect and ellipse over several points and sizes
BoxArgs ==
    {<<Tuple(p), Scalar(d[1]), Scalar(d[2])>> :
        p \in Points2D \cup Points3D, d \in Dims}
    \cup {<<Scalar(p[1]), Scalar(p[2]), Scalar(d[1]), Scalar(d[2])>> :
             p \in Points2D, d \in Dims}
    \cup {<<Tuple(p), Tuple(q)>> : p, q \in Points2D}
    \cup {Scalars(n) : n \in Counts(3, 4) \ {3, 4}}

\* argument lists of square and circle over several points and sizes
SideArgs ==
    {<<Tuple(p), Scalar(d)>> : p \in Points2D \cup Points3D, d \in Sides}
    \cup {<<Scalar(p[1]), Scalar(p[2]), Scalar(d)>> : p \in Points2D, d \in Sides}
    \cup {Scalars(n) : n \in Counts(2, 3) \ {2, 3}}

\* argument lists of ellipse for the tessellation
EllipseArgs ==
    {<<Tuple(<<Num(0), Num(0)>>), Scalar(Num(4)), Scalar(Num(6))>>,
     <<Tuple(<<Num(1), Num(2), Num(3)>>), Scalar(Num(10)), Scalar(Num(10))>>,
     <<Scalar(Num(10)), Scalar(Num(10)), Scalar(Num(50)), Scalar(Num(4))>>}

\* argument lists of circle for the tessellation
CircleArgs ==
    {<<Tuple(<<Num(0), Num(0)>>), Scalar(d)>> : d \in Sides}
    \cup {<<Scalar(Num(10)), Scalar(Num(10)), Scalar(Num(10))>>}

\* start and stop angles of arcs: a quarter turn and a full turn
Angles == {<<0, TwoPi \div 4>>, <<0, TwoPi>>}

\* argument lists of arc over several angles
ArcArgs ==
    {<<Tuple(p), Scalar(d[1]), Scalar(d[2]), Scalar(a[1]), Scalar(a[2])>> :
        p \in {<<Num(0), Num(0)>>}, d \in {<<Num(4), Num(6)>>}, a \in Angles}
    \cup {<<Scalar(p[1]), Scalar(p[2]), Scalar(d[1]), Scalar(d[2]),
            Scalar(a[1]), Scalar(a[2])>> :
             p \in {<<Num(10), Num(10)>>}, d \in {<<Num(50), Num(50)>>},
             a \in Angles}
    \cup {Scalars(n) : n \in Counts(5, 6) \ {5, 6}}

\* argument lists of line, triangle and quad: points, scalars, a wrong count
PathArgs(k) ==
    {[i \in 1..k |-> Tuple(<<Num(i), Num(2 * i)>>)], Scalars(2 * k), Scalars(k + 1)}

\* the points handed to point
PointArgs ==
    {[i \in 1..Len(p) |-> Scalar(p[i])] : p \in {<<Num(10), Num(10)>>} \cup Points3D}

\* argument lists of the arcs a sketch keeps: a quarter turn of three sizes
HoldArgs ==
    {<<Tuple(<<Num(0), Num(0)>>), Scalar(d[1]), Scalar(d[2]),
       Scalar(0), Scalar(TwoPi \div 4)>> :
        d \in {<<Num(5), Num(5)>>, <<Num(4), Num(6)>>, <<Num(50), Num(50)>>}}

\* start and stop angles with start <= stop: a zero-length span, a span from
\* a negative angle that is no multiple of any stride, more than a full turn
Spans == {<<TwoPi \div 4, TwoPi \div 4>>, <<-201, 501>>, <<0, TwoPi + 90>>}

\* argument lists of arc over these spans
SpanArgs ==
    {<<Tuple(<<Num(0), Num(0)>>), Scalar(Num(4)), Scalar(Num(6)),
       Scalar(a[1]), Scalar(a[2])>> : a \in Spans}
    \cup {<<Scalar(Num(10)), Scalar(Num(10)), Scalar(Num(50)), Scalar(Num(50)),
            Scalar(-201), Scalar(501)>>}

\* the largest resolution a sketch sets besides the initial one
MaxSteps == 3

\* curves.bezier_resolution and curves.curve_resolution before a sketch sets them
DefaultResolution == 20

\* the values a sketch gives a resolution
Resolutions == 0..MaxSteps \cup {DefaultResolution}

\* argument lists of bezier and curve: 4 points in 2D and in 3D, 8 and 12
\* scalars, and scalars of the other counts around them
CurveArgs ==
    {[k \in 1..4 |-> Tuple(<<Num(k), Num(2 * k)>>)],
     [k \in 1..4 |-> Tuple(<<Num(k), Num(2 * k), Num(3 * k)>>)]}
    \cup {Scalars(n) : n \in Counts(4, 12) \ {4}}

\* shape trees: nodes 1..n, node 1 the root, parent[k] < k, the children of a
\* node in ascending or descending order, every node a PShape or a Geometry
RECURSIVE Tree(_, _, _, _, _)
Tree(n, parent, cls, rev, k) ==
    LET kids == {j \in 2..n : parent[j] = k}
        RECURSIVE Sorted(_)
        Sorted(S) ==
            IF S = {} THEN <<>>
            ELSE LET x == CHOOSE y \in S : \A z \in S : IF rev THEN z <= y ELSE y <= z
                 IN <<x>> \o Sorted(S \ {x})
        order == Sorted(kids)
    IN [cls |-> cls[k], id |-> k,
        children |-> [i \in 1..Len(order) |-> Tree(n, parent, cls, rev, order[i])]]

Trees ==
    UNION {{Tree(n, parent, cls, rev, 1) :
                parent \in {f \in [2..n -> 1..n] : \A j \in 2..n : f[j] < j},
                cls \in [1..n -> {"PShape", "Geometry"}],
                rev \in BOOLEAN} : n \in 1..MaxNodes}

\* the kinds create_shape is asked for: those of shape_map and one it lacks
Kinds == {"arc", "circle", "ellipse", "line", "point", "quad", "rect",
          "square", "triangle", None, "box"}

\* the argument lists handed to line, triangle and quad
LineArgs == PathArgs(2)

TriangleArgs == PathArgs(3)

QuadArgs == PathArgs(4)

\* scalar argument lists handed on by create_shape: an accepted count and one
\* that is not, for rect and ellipse, for square and circle, and for arc
BoxKindArgs == {Scalars(2), Scalars(4)}

SideKindArgs == {Scalars(3), Scalars(4)}

ArcKindArgs == {Scalars(6), Scalars(7)}

\* argument lists handed on by create_shape, per kind
KindArgs(kind) ==
    CASE kind \in {"rect", "ellipse"} -> BoxKindArgs
      [] kind \in {"square", "circle"} -> SideKindArgs
      [] kind = "arc" -> ArcKindArgs
      [] kind = "line" -> LineArgs
      [] kind = "triangle" -> TriangleArgs
      [] kind = "quad" -> QuadArgs
      [] kind = "point" -> PointArgs
      [] OTHER -> {<<>>}

\* the mode keyword handed on by create_shape, per kind
KindModes(kind) ==
    IF kind \in {"rect", "ellipse", "square", "circle"}
    THEN {None, "CORNERS"}
    ELSE {None}

-----------------------------------------------------------------------------
(* The state machine *)

NoCall == [fn |-> None, kind |-> None, args |-> <<>>, kw |-> Kw(None, None)]

Init ==
    /\ _rect_mode = "CORNER"
    /\ _ellipse_mode = "CENTER"
    /\ stroke_cap = "ROUND"
    /\ stroke_weight = Num(1)
    /\ transform_matrix = [num |-> 1, den |-> 1]
    /\ call = NoCall
    /\ outcome = Returns(NoShape, <<>>)
    /\ rectModeArg = "CORNER"
    /\ ellipseModeArg = "CENTER"
    /\ bezier_resolution = DefaultResolution
    /\ curve_resolution = DefaultResolution
    /\ held = NoShape
    /\ heldTransform = [num |-> 1, den |-> 1]

\* a call that leaves the module globals and the renderer alone; m and e are
\* its keyword arguments mode and ellipse_mode
Do(fn, kind, args, m, e) ==
    /\ call' = [fn |-> fn, kind |-> kind, args |-> args, kw |-> Kw(m, e)]
    /\ UNCHANGED <<_rect_mode, _ellipse_mode, stroke_cap, stroke_weight,
                   transform_matrix, rectModeArg, ellipseModeArg,
                   bezier_resolution, curve_resolution, held, heldTransform>>

\* rect_mode(m), and rect_mode() for m = None
CallRectMode ==
    \E m \in KwModes :
        LET mode == IF m = None THEN "CORNER" ELSE m
        IN /\ _rect_mode' = rect_mode(mode, _rect_mode)
           /\ rectModeArg' = mode
           /\ call' = [fn |-> "rect_mode", kind |-> None, args |-> <<>>,
                       kw |-> Kw(m, None)]
           /\ outcome' = Returns(NoShape, <<>>)
           /\ UNCHANGED <<_ellipse_mode, stroke_cap, stroke_weight,
                          transform_matrix, ellipseModeArg,
                          bezier_resolution, curve_resolution, held, heldTransform>>

\* ellipse_mode(m), and ellipse_mode() for m = None
CallEllipseMode ==
    \E m \in KwModes :
        LET mode == IF m = None THEN "CENTER" ELSE m
        IN /\ _ellipse_mode' = ellipse_mode(mode, _ellipse_mode)
           /\ ellipseModeArg' = mode
           /\ call' = [fn |-> "ellipse_mode", kind |-> None, args |-> <<>>,
                       kw |-> Kw(m, None)]
           /\ outcome' = Returns(NoShape, <<>>)
           /\ UNCHANGED <<_rect_mode, stroke_cap, stroke_weight,
                          transform_matrix, rectModeArg,
                          bezier_resolution, curve_resolution, held, heldTransform>>

\* the sketch changes the renderer's stroke cap
SetStrokeCap ==
    /\ \E c \in StrokeCaps : stroke_cap' = c
    /\ call' = [NoCall EXCEPT !.fn = "stroke_cap"]
    /\ outcome' = Returns(NoShape, <<>>)
    /\ UNCHANGED <<_rect_mode, _ellipse_mode, stroke_weight, transform_matrix,
                   rectModeArg, ellipseModeArg,
                   bezier_resolution, curve_resolution, held, heldTransform>>

\* the sketch changes the renderer's stroke weight
SetStrokeWeight ==
    /\ \E w \in StrokeWeights : stroke_weight' = w
    /\ call' = [NoCall EXCEPT !.fn = "stroke_weight"]
    /\ outcome' = Returns(NoShape, <<>>)
    /\ UNCHANGED <<_rect_mode, _ellipse_mode, stroke_cap, transform_matrix,
                   rectModeArg, ellipseModeArg,
                   bezier_resolution, curve_resolution, held, heldTransform>>

\* the sketch changes the renderer's transform matrix
SetTransform ==
    /\ \E t \in Scales : transform_matrix' = t
    /\ call' = [NoCall EXCEPT !.fn = "scale"]
    /\ outcome' = Returns(NoShape, <<>>)
    /\ UNCHANGED <<_rect_mode, _ellipse_mode, stroke_cap, stroke_weight,
                   rectModeArg, ellipseModeArg,
                   bezier_resolution, curve_resolution, held, heldTransform>>

CallRect(A, M) ==
    \E a \in A, m \in M :
        /\ Do("rect", None, a, m, None)
        /\ outcome' = rect(a, m, _rect_mode)

CallSquare(A, M) ==
    \E a \in A, m \in M :
        /\ Do("square", None, a, m, None)
        /\ outcome' = square(a, m, _rect_mode)

CallEllipse(A, M) ==
    \E a \in A, m \in M :
        /\ Do("ellipse", None, a, m, None)
        /\ outcome' = ellipse(a, m, _ellipse_mode, transform_matrix)

CallCircle(A, M) ==
    \E a \in A, m \in M :
        /\ Do("circle", None, a, m, None)
        /\ outcome' = circle(a, m, _ellipse_mode, transform_matrix)

CallArc(A, M, E) ==
    \E a \in A, m \in M, e \in E :
        /\ Do("arc", None, a, m, e)
        /\ outcome' = arc(a, m, e, _ellipse_mode, transform_matrix)

CallPoint ==
    \E a \in PointArgs :
        /\ Do("point", None, a, None, None)
        /\ outcome' = point(a, stroke_cap, stroke_weight, _rect_mode,
                            _ellipse_mode, transform_matrix)

CallLine ==
    \E a \in LineArgs :
        /\ Do("line", None, a, None, None)
        /\ outcome' = line(a)

CallTriangle ==
    \E a \in TriangleArgs :
        /\ Do("triangle", None, a, None, None)
        /\ outcome' = triangle(a)

CallQuad ==
    \E a \in QuadArgs :
        /\ Do("quad", None, a, None, None)
        /\ outcome' = quad(a)

\* the sketch changes curves.bezier_resolution
SetBezierResolution ==
    /\ \E n \in Resolutions : bezier_resolution' = n
    /\ call' = [NoCall EXCEPT !.fn = "bezier_resolution"]
    /\ outcome' = Returns(NoShape, <<>>)
    /\ UNCHANGED <<_rect_mode, _ellipse_mode, stroke_cap, stroke_weight,
                   transform_matrix, rectModeArg, ellipseModeArg,
                   curve_resolution, held, heldTransform>>

\* the sketch changes curves.curve_resolution
SetCurveResolution ==
    /\ \E n \in Resolutions : curve_resolution' = n
    /\ call' = [NoCall EXCEPT !.fn = "curve_resolution"]
    /\ outcome' = Returns(NoShape, <<>>)
    /\ UNCHANGED <<_rect_mode, _ellipse_mode, stroke_cap, stroke_weight,
                   transform_matrix, rectModeArg, ellipseModeArg,
                   bezier_resolution, held, heldTransform>>

CallBezier ==
    \E a \in CurveArgs :
        /\ Do("bezier", None, a, None, None)
        /\ outcome' = bezier(a, bezier_resolution)

CallCurve ==
    \E a \in CurveArgs :
        /\ Do("curve", None, a, None, None)
        /\ outcome' = curve(a, curve_resolution)

\* a = arc(...): the sketch keeps a reference to the Arc just returned
KeepArc ==
    /\ outcome.status = "ok"
    /\ outcome.shape.cls = "Arc"
    /\ held' = outcome.shape
    /\ heldTransform' = transform_matrix
    /\ UNCHANGED <<_rect_mode, _ellipse_mode, stroke_cap, stroke_weight,
                   transform_matrix, call, outcome, rectModeArg,
                   ellipseModeArg, bezier_resolution, curve_resolution>>

\* draw_shape(a) on the Arc the sketch keeps
DrawHeld ==
    /\ held # NoShape
    /\ Do("draw_shape", None, <<>>, None, None)
    /\ outcome' = Returns(NoShape, draw_shape(held))

CallCreateShape ==
    \E kind \in Kinds :
        \E a \in KindArgs(kind), m \in KindModes(kind) :
            /\ Do("create_shape", kind, a, m, None)
            /\ outcome' = create_shape(kind, a, Kw(m, None), stroke_cap,
                                       stroke_weight, _rect_mode, _ellipse_mode,
                                       transform_matrix)

CallDrawShape ==
    \E t \in Trees :
        /\ Do("draw_shape", None, <<t>>, None, None)
        /\ outcome' = Returns(NoShape, draw_shape(t))

-----------------------------------------------------------------------------
(* Specifications *)

\* The constructors, the two mode setters and the stroke cap, one argument
\* list per accepted form and the argument counts around them; stroke weight
\* and transform stay at their initial values.
Next ==
    \/ CallRectMode
    \/ CallEllipseMode
    \/ SetStrokeCap
    \/ CallRect(BoxForms, KwModes)
    \/ CallSquare(SideForms, KwModes)
    \/ CallEllipse(BoxForms, KwModes)
    \/ CallCircle(SideForms, KwModes)
    \/ CallArc(ArcForms, {None}, KwModes)
    \/ CallPoint
    \/ CallLine
    \/ CallTriangle
    \/ CallQuad
    \/ CallCreateShape

Spec == Init /\ [][Next]_vars

\* rect and square over several points and sizes, under every rect mode
NextRect ==
    \/ CallRectMode
    \/ CallRect(BoxArgs, KwModes)
    \/ CallSquare(SideArgs, KwModes)

SpecRect == Init /\ [][NextRect]_vars

\* ellipse, circle and arc over several sizes and angles, under every ellipse
\* mode and transform scale
NextArc ==
    \/ CallEllipseMode
    \/ SetTransform
    \/ CallEllipse(EllipseArgs, {None, "RADIUS"})
    \/ CallCircle(CircleArgs, {None, "RADIUS"})
    \/ CallArc(ArcArgs, ArcModes, {None})

SpecArc == Init /\ [][NextArc]_vars

\* point under every stroke cap, stroke weight and pair of modes
NextPoint ==
    \/ CallRectMode
    \/ CallEllipseMode
    \/ SetStrokeCap
    \/ SetStrokeWeight
    \/ CallPoint

SpecPoint == Init /\ [][NextPoint]_vars

\* draw_shape over shape trees
NextDraw == CallDrawShape

SpecDraw == Init /\ [][NextDraw]_vars

\* bezier and curve under every resolution
NextCurve ==
    \/ SetBezierResolution
    \/ SetCurveResolution
    \/ CallBezier
    \/ CallCurve

SpecCurve == Init /\ [][NextCurve]_vars

\* a sketch that keeps an Arc while it changes the transform and the ellipse
\* mode, draws the Arc and builds other shapes
NextHold ==
    \/ SetTransform
    \/ CallEllipseMode
    \/ CallArc(HoldArgs, {None, "OPEN"}, {None})
    \/ CallLine
    \/ KeepArc
    \/ DrawHeld

SpecHold == Init /\ [][NextHold]_vars

\* arcs of every closure mode over several spans, some kept by the sketch
NextSpan ==
    \/ SetTransform
    \/ CallArc(SpanArgs, ArcModes, {None})
    \/ KeepArc

SpecSpan == Init /\ [][NextSpan]_vars

-----------------------------------------------------------------------------
(* Properties *)

\* the constructor a call ends in: the kind, for a call of create_shape
Callee == IF call.fn = "create_shape" THEN call.kind ELSE call.fn

\* the mode a rect or square call works in
EffRectMode == IF call.kw.mode = None THEN _rect_mode ELSE call.kw.mode

\* the mode an ellipse or circle call works in
EffEllipseMode == IF call.kw.mode = None THEN _ellipse_mode ELSE call.kw.mode

\* the argument counts a constructor accepts
Accepted(fn) ==
    CASE fn \in {"rect", "ellipse"} -> {3, 4}
      [] fn \in {"square", "circle"} -> {2, 3}
      [] fn = "arc" -> {5, 6}

\* C1: rect, square, ellipse, circle or arc called with an argument count it
\* does not accept raises ValueError, and render is not called during that
\* call, whatever the two modes are.
C1_WrongCountRaises ==
    (/\ Callee \in {"rect", "square", "ellipse", "circle", "arc"}
     /\ Len(call.args) \notin Accepted(Callee))
    => /\ outcome.status = "ValueError"
       /\ outcome.shape = NoShape
       /\ outcome.rendered = <<>>

C1_Witness ==
    /\ call.fn = "arc"
    /\ Len(call.args) = 7
    /\ _ellipse_mode = "RADIUS"
    /\ _rect_mode = "CORNERS"
    /\ outcome.status = "ValueError"

\* C2: square and circle called with an accepted argument count raise
\* ValueError whenever the mode they work in is CORNERS, passed or taken from
\* the global mode; no shape is made and render is not called.
C2_NoCornersMode ==
    /\ (/\ Callee = "square"
        /\ Len(call.args) \in Accepted("square")
        /\ EffRectMode = "CORNERS")
       => /\ outcome.status = "ValueError"
          /\ outcome.msg = "Cannot draw square with CORNERS mode"
          /\ outcome.shape = NoShape
          /\ outcome.rendered = <<>>
    /\ (/\ Callee = "circle"
        /\ Len(call.args) \in Accepted("circle")
        /\ EffEllipseMode = "CORNERS")
       => /\ outcome.status = "ValueError"
          /\ outcome.msg = "Cannot create circle in CORNERS mode"
          /\ outcome.shape = NoShape
          /\ outcome.rendered = <<>>

C2_Witness ==
    /\ call.fn = "circle"
    /\ Len(call.args) = 3
    /\ call.kw.mode = None
    /\ _ellipse_mode = "CORNERS"
    /\ outcome.status = "ValueError"

\* C3 as stated: a call of rect, square, ellipse, circle or point, direct or
\* through create_shape, returns its shape without any call of render.
C3_ComposersDoNotDraw ==
    Callee \in {"rect", "square", "ellipse", "circle", "point"}
    => outcome.rendered = <<>>

\* C3, what the code does: create_shape('rect', x, y, w, h) returns a quad
\* that was handed to render.
C3_Witness ==
    /\ call.fn = "create_shape"
    /\ call.kind = "rect"
    /\ outcome.status = "ok"
    /\ outcome.shape.shape_type = "QUADS"
    /\ outcome.rendered = <<outcome.shape>>

\* A successful call of any constructor, direct or through create_shape, calls
\* render exactly once, with the shape it returns; a call that raises returns
\* no shape and renders nothing.
ConstructorsDrawOnce ==
    Callee \in {"rect", "square", "ellipse", "circle", "point",
                "line", "triangle", "quad", "arc"}
    => IF outcome.status = "ok"
       THEN /\ outcome.shape # NoShape
            /\ outcome.rendered = <<outcome.shape>>
       ELSE /\ outcome.shape = NoShape
            /\ outcome.rendered = <<>>

\* the nodes of the subtree of a shape, the shape itself among them
RECURSIVE SubtreeNodes(_)
SubtreeNodes(shape) ==
    {shape} \cup UNION {SubtreeNodes(shape.children[i]) :
                            i \in 1..Len(shape.children)}

\* a is above b in the tree
IsProperAncestor(a, b) == b \in SubtreeNodes(a) /\ b # a

\* C4: draw_shape(shape) ends having called render on the shape first, then
\* on each child's whole subtree in child-list order (pre-order): every shape
\* with no Geometry above it is rendered exactly once and after all the shapes
\* above it, and nothing below a Geometry is rendered.
C4_PreOrder ==
    call.fn = "draw_shape" =>
        LET t == call.args[1]
            r == outcome.rendered
            nodes == SubtreeNodes(t)
            shown == {n \in nodes :
                         \A a \in nodes :
                             IsProperAncestor(a, n) => a.cls # "Geometry"}
            Pos(n) == CHOOSE i \in 1..Len(r) : r[i] = n
        IN /\ Len(r) >= 1
           /\ Len(r) <= Cardinality(nodes)
           /\ r[1] = t
           /\ \A i, j \in 1..Len(r) : r[i] = r[j] => i = j
           /\ {r[i] : i \in 1..Len(r)} = shown
           /\ \A i, j \in 1..Len(r) : IsProperAncestor(r[i], r[j]) => i < j
           /\ \A i \in 1..Len(r) :
                  {j \in 1..Len(r) : r[j] \in SubtreeNodes(r[i])}
                      = i..(i + Cardinality(SubtreeNodes(r[i]) \cap shown) - 1)
           /\ \A i \in 1..Len(r) :
                  r[i].cls # "Geometry" =>
                      \A a, b \in 1..Len(r[i].children) :
                          a < b => Pos(r[i].children[a]) < Pos(r[i].children[b])
           /\ \A i \in 1..Len(r) :
                  r[i].cls = "Geometry" =>
                      \A n \in SubtreeNodes(r[i]) \ {r[i]} :
                          \A j \in 1..Len(r) : r[j] # n

C4_Witness ==
    /\ call.fn = "draw_shape"
    /\ Cardinality(SubtreeNodes(call.args[1])) = 4
    /\ Len(outcome.rendered) = 3
    /\ outcome.rendered[2].id = 3
    /\ outcome.rendered[2].cls = "Geometry"
    /\ Len(outcome.rendered[2].children) = 1
    /\ outcome.rendered[3].id = 2

\* the ellipse mode an arc call works in
EffArcEllipseMode ==
    IF call.kw.ellipse_mode = None THEN _ellipse_mode ELSE call.kw.ellipse_mode

\* C5: the rect mode is the argument of the most recent rect_mode call and the
\* ellipse mode that of the most recent ellipse_mode call, CORNER and CENTER
\* initially and after a call without argument, whatever constructor calls
\* came in between; a constructor's outcome is the one of the mode it is given
\* or, given none, of the current flag, and depends on the flag in no other way.
C5_ModeFlags ==
    /\ _rect_mode = rectModeArg
    /\ _ellipse_mode = ellipseModeArg
    /\ call.fn = None => _rect_mode = "CORNER" /\ _ellipse_mode = "CENTER"
    /\ (call.fn = "rect_mode" /\ call.kw.mode = None) => _rect_mode = "CORNER"
    /\ (call.fn = "rect_mode" /\ call.kw.mode # None) => _rect_mode = call.kw.mode
    /\ (call.fn = "ellipse_mode" /\ call.kw.mode = None)
       => _ellipse_mode = "CENTER"
    /\ (call.fn = "ellipse_mode" /\ call.kw.mode # None)
       => _ellipse_mode = call.kw.mode
    /\ Callee = "rect" =>
           \A x \in AnyMode : outcome = rect(call.args, EffRectMode, x)
    /\ Callee = "square" =>
           \A x \in AnyMode : outcome = square(call.args, EffRectMode, x)
    /\ Callee = "ellipse" =>
           \A x \in AnyMode :
               outcome = ellipse(call.args, EffEllipseMode, x, transform_matrix)
    /\ Callee = "circle" =>
           \A x \in AnyMode :
               outcome = circle(call.args, EffEllipseMode, x, transform_matrix)
    /\ Callee = "arc" =>
           \A x \in AnyMode :
               outcome = arc(call.args, call.kw.mode, EffArcEllipseMode, x,
                             transform_matrix)
    /\ Callee = "point" =>
           \A x, y \in AnyMode :
               outcome = point(call.args, stroke_cap, stroke_weight, x, y,
                               transform_matrix)

C5_Witness ==
    /\ rectModeArg = "RADIUS"
    /\ _rect_mode = "RADIUS"
    /\ ellipseModeArg = "CORNER"
    /\ call.fn = "rect"
    /\ call.kw.mode = None
    /\ Len(call.args) = 3
    /\ outcome.status = "ok"
    /\ outcome.shape.vertices[1] = <<Num(10) - Num(4), Num(10) - Num(6), 0>>

\* (x, y, 0) or (x, y, z) of a coordinate
XYZ(c) == IF Len(c) = 2 THEN <<c[1], c[2], 0>> ELSE <<c[1], c[2], c[3]>>

\* C6 as stated: point raises ValueError 'Unknown stroke_cap value' only when
\* the stroke cap is none of SQUARE, ROUND, PROJECT, and under SQUARE it
\* returns a shape holding the vertex (x, y, z).
C6_SquareCapReturnsPoint ==
    call.fn = "point" =>
        /\ (outcome.status = "ValueError"
            /\ outcome.msg = "Unknown stroke_cap value")
           <=> stroke_cap \notin {"SQUARE", "ROUND", "PROJECT"}
        /\ stroke_cap = "SQUARE" =>
               /\ outcome.status = "ok"
               /\ outcome.shape.vertices = <<XYZ(Coords(call.args))>>

\* C6, what the code does: under the SQUARE stroke cap point raises
\* ValueError 'Unknown stroke_cap value'.
C6_Witness ==
    /\ call.fn = "point"
    /\ stroke_cap = "SQUARE"
    /\ outcome.status = "ValueError"
    /\ outcome.msg = "Unknown stroke_cap value"
    /\ outcome.shape = NoShape

\* C7 as stated: under ROUND point yields a circle centred at the point with
\* radii stroke_weight / 2, under PROJECT a square centred at the point with
\* side stroke_weight, whatever the two modes are.
C7_PointSize ==
    (call.fn = "point" /\ outcome.status = "ok") =>
        LET p == XYZ(Coords(call.args))
            h == stroke_weight \div 2
            s == outcome.shape
        IN /\ stroke_cap = "ROUND" =>
                  /\ s.cls = "Arc"
                  /\ s._center = p
                  /\ s._radii[1] = h
                  /\ s._radii[2] = h
           /\ stroke_cap = "PROJECT" =>
                  /\ s.shape_type = "QUADS"
                  /\ s.vertices = << <<p[1] - h, p[2] - h, p[3]>>,
                                     <<p[1] + h, p[2] - h, p[3]>>,
                                     <<p[1] + h, p[2] + h, p[3]>>,
                                     <<p[1] - h, p[2] + h, p[3]>> >>

\* C7, what the code does: under ROUND the radii of the circle are a quarter
\* of the stroke weight (0.25 for the weight 1).
C7_Witness ==
    /\ call.fn = "point"
    /\ stroke_cap = "ROUND"
    /\ stroke_weight = Num(1)
    /\ _ellipse_mode = "CORNERS"
    /\ outcome.status = "ok"
    /\ outcome.shape._center = XYZ(Coords(call.args))
    /\ 4 * outcome.shape._radii[1] = stroke_weight
    /\ 4 * outcome.shape._radii[2] = stroke_weight

\* the least k with k * b >= a, for a >= 0 and b > 0
CeilDiv(a, b) == (a + b - 1) \div b

\* C8: a circle or full ellipse has ceil(len(SINCOS) / inc) + 2 vertices, inc
\* being int(len(SINCOS) / acc) for an accuracy acc between 20 and 200: at
\* least 22 and at most 202 of them, the last two both equal to the first
\* (closed loop); circle((0, 0), 5) under the identity transform has 22.
C8_ClosedLoop ==
    (Callee \in {"circle", "ellipse"} /\ outcome.status = "ok") =>
        LET v == outcome.shape.vertices
            n == Len(v)
        IN /\ \E acc \in MIN_POINT_ACCURACY..MAX_POINT_ACCURACY :
                  n = CeilDiv(SINCOS_LENGTH, SINCOS_LENGTH \div acc) + 2
           /\ n >= MIN_POINT_ACCURACY + 2
           /\ n <= MAX_POINT_ACCURACY + 2
           /\ v[n] = v[1]
           /\ v[n - 1] = v[1]
           /\ \A i \in 1..n : v[i].r = v[1].r /\ v[i].c = v[1].c
           /\ (/\ call.fn = "circle"
               /\ call.args = <<Tuple(<<Num(0), Num(0)>>), Scalar(Num(5))>>
               /\ EffEllipseMode = "CENTER"
               /\ transform_matrix = [num |-> 1, den |-> 1])
              => n = MIN_POINT_ACCURACY + 2

C8_Witness ==
    /\ call.fn = "circle"
    /\ call.args = <<Tuple(<<Num(0), Num(0)>>), Scalar(Num(5))>>
    /\ EffEllipseMode = "CENTER"
    /\ transform_matrix = [num |-> 100, den |-> 1]
    /\ outcome.status = "ok"
    /\ Len(outcome.shape.vertices) = MAX_POINT_ACCURACY + 2
    /\ outcome.shape.vertices[1]
           = outcome.shape.vertices[Len(outcome.shape.vertices)]

\* C8 as stated: a circle or full ellipse has between 20 and 200 vertices, the
\* first and the last equal, under any transform scale.
C8_VertexCountClamped ==
    (Callee \in {"circle", "ellipse"} /\ outcome.status = "ok") =>
        LET v == outcome.shape.vertices
        IN /\ Len(v) >= MIN_POINT_ACCURACY
           /\ Len(v) <= MAX_POINT_ACCURACY
           /\ v[1] = v[Len(v)]

\* the coordinate, and the last two arguments, of a rect call with 3 or 4
\* arguments
RectPoint ==
    IF Len(call.args) = 3 THEN XYZ(call.args[1].c)
    ELSE <<call.args[1].c[1], call.args[2].c[1], 0>>

RectW == call.args[Len(call.args) - 1].c[1]

RectH == call.args[Len(call.args)].c[1]

\* C9: under CORNER, CENTER and RADIUS rect returns a QUADS shape of the 4
\* vertices corner, corner+(w,0), corner+(w,h), corner+(0,h) for the mode's
\* canonical corner, w and h; corner + (w/2, h/2) is the input centre under
\* CENTER and RADIUS; rect((0,0), 10, 10, mode='CORNER') gives (0,0,0),
\* (10,0,0), (10,10,0), (0,10,0); (x, y, w, h) gives what ((x, y), w, h) gives.
C9_RectVertices ==
    (call.fn = "rect" /\ Len(call.args) \in {3, 4}) =>
        LET p == RectPoint
            m == EffRectMode
            w == IF m = "RADIUS" THEN 2 * RectW ELSE RectW
            h == IF m = "RADIUS" THEN 2 * RectH ELSE RectH
            corner == CASE m = "CENTER" ->
                               <<p[1] - RectW \div 2, p[2] - RectH \div 2, p[3]>>
                        [] m = "RADIUS" -> <<p[1] - RectW, p[2] - RectH, p[3]>>
                        [] OTHER -> p
            v == outcome.shape.vertices
        IN /\ m \in {"CORNER", "CENTER", "RADIUS"} =>
                  /\ outcome.status = "ok"
                  /\ outcome.shape.cls = "PShape"
                  /\ outcome.shape.shape_type = "QUADS"
                  /\ Len(v) = 4
                  /\ v = << corner,
                            <<corner[1] + w, corner[2], corner[3]>>,
                            <<corner[1] + w, corner[2] + h, corner[3]>>,
                            <<corner[1], corner[2] + h, corner[3]>> >>
           /\ m \in {"CENTER", "RADIUS"} =>
                  <<v[1][1] + (v[3][1] - v[1][1]) \div 2,
                    v[1][2] + (v[3][2] - v[1][2]) \div 2, v[1][3]>> = p
           /\ (/\ call.args = <<Tuple(<<Num(0), Num(0)>>), Scalar(Num(10)),
                                Scalar(Num(10))>>
               /\ call.kw.mode = "CORNER")
              => v = << <<Num(0), Num(0), Num(0)>>, <<Num(10), Num(0), Num(0)>>,
                        <<Num(10), Num(10), Num(0)>>, <<Num(0), Num(10), Num(0)>> >>
           /\ Len(call.args) = 4 =>
                  outcome = rect(<<Tuple(<<p[1], p[2]>>), call.args[3],
                                   call.args[4]>>, call.kw.mode, _rect_mode)

C9_Witness ==
    /\ call.fn = "rect"
    /\ call.args = <<Scalar(Num(10)), Scalar(Num(10)), Scalar(Num(4)),
                     Scalar(Num(6))>>
    /\ call.kw.mode = None
    /\ _rect_mode = "CENTER"
    /\ outcome.status = "ok"
    /\ outcome.shape.vertices[1] = <<Num(8), Num(7), 0>>
    /\ outcome.shape.vertices[3] = <<Num(12), Num(13), 0>>

\* C10 as stated: in CORNERS mode, passed or taken from the global rect mode,
\* rect called with a corner and the opposite corner returns the quad of
\* width opposite.x - corner.x and height opposite.y - corner.y.
C10_CornersFormAccepted ==
    (/\ call.fn = "rect"
     /\ Len(call.args) = 2
     /\ call.args[1].pt
     /\ call.args[2].pt
     /\ EffRectMode = "CORNERS") =>
        LET p == XYZ(call.args[1].c)
            q == XYZ(call.args[2].c)
        IN /\ outcome.status = "ok"
           /\ outcome.shape.vertices
                  = << p, <<q[1], p[2], p[3]>>, <<q[1], q[2], p[3]>>,
                       <<p[1], q[2], p[3]>> >>

\* C10, what the code does: rect given a corner and the opposite corner raises
\* ValueError for the argument count, in CORNERS mode too.
C10_Witness ==
    /\ call.fn = "rect"
    /\ call.args = <<Tuple(<<Num(0), Num(0)>>), Tuple(<<Num(10), Num(10)>>)>>
    /\ call.kw.mode = "CORNERS"
    /\ outcome.status = "ValueError"
    /\ outcome.msg = "Unexpected number of arguments passed to rect()"
    /\ outcome.rendered = <<>>

\* In CORNERS mode no rect call returns a shape: the forms with 3 or 4
\* arguments fail to unpack the opposite corner, every other count is rejected.
CornersModeAlwaysRaises ==
    (Callee = "rect" /\ EffRectMode = "CORNERS") =>
        /\ outcome.status = "ValueError"
        /\ outcome.shape = NoShape

\* C11: bezier and curve called with an argument count other than 4, 8 or
\* 12 raise ValueError and render nothing; called with 4 points, 8 or 12
\* scalars under a resolution steps >= 1 they return a LINE_STRIP shape of
\* steps + 1 vertices, vertex i the evaluator's point for the four control
\* points at t = i / steps, the first at t = 0 and the last at t = 1.
C11_CurveVertices ==
    call.fn \in {"bezier", "curve"} =>
        LET steps == IF call.fn = "bezier" THEN bezier_resolution
                     ELSE curve_resolution
            n == Len(call.args)
            d == n \div 4
            control(k) == IF n = 4 THEN call.args[k].c
                          ELSE [j \in 1..d |-> call.args[(k - 1) * d + j].c[1]]
            v == outcome.shape.vertices
        IN /\ n \notin {4, 8, 12} =>
                  /\ outcome.status = "ValueError"
                  /\ outcome.shape = NoShape
                  /\ outcome.rendered = <<>>
           /\ (n \in {4, 8, 12} /\ steps >= 1) =>
                  /\ outcome.status = "ok"
                  /\ outcome.shape.shape_type = "LINE_STRIP"
                  /\ Len(v) = steps + 1
                  /\ \A i \in 0..steps :
                         /\ v[i + 1].fn = (IF call.fn = "bezier"
                                           THEN "bezier_point" ELSE "curve_point")
                         /\ v[i + 1].points = <<control(1), control(2),
                                                control(3), control(4)>>
                         /\ v[i + 1].t = <<i, steps>>
                  /\ v[1].t[1] = 0
                  /\ v[Len(v)].t[1] = v[Len(v)].t[2]

C11_Witness ==
    /\ call.fn = "curve"
    /\ Len(call.args) = 12
    /\ curve_resolution = MaxSteps
    /\ bezier_resolution = 1
    /\ outcome.status = "ok"
    /\ Len(outcome.shape.vertices) = MaxSteps + 1
    /\ Len(outcome.shape.vertices[1].points[4]) = 3

\* rx^2 + ry^2 of an Arc's radii
RadiiSq(radii) == radii[1] * radii[1] + radii[2] * radii[2]

\* 16 * projected_size^2 of radii under the scale tm, rounded down
SizeSq16(radii, tm) == (tm.num * tm.num * RadiiSq(radii)) \div (tm.den * tm.den)

\* the projected size of ra under ta is at most that of rb under tb
SizeLeq(ra, ta, rb, tb) ==
    IF ta.den = tb.den
    THEN ta.num * ta.num * RadiiSq(ra) <= tb.num * tb.num * RadiiSq(rb)
    ELSE IF tb.den = 1
    THEN CeilDiv(ta.num * ta.num * RadiiSq(ra), ta.den * ta.den)
             <= tb.num * tb.num * RadiiSq(rb)
    ELSE ta.num * ta.num * RadiiSq(ra)
             <= (tb.num * tb.num * RadiiSq(rb)) \div (tb.den * tb.den)

\* the Arcs of a state, each with the transform it was built under: the one
\* the sketch keeps and the one just returned
ArcsBuilt ==
    (IF held # NoShape THEN {<<held, heldTransform>>} ELSE {})
    \cup (IF outcome.shape # NoShape /\ outcome.shape.cls = "Arc"
          THEN {<<outcome.shape, transform_matrix>>} ELSE {})

\* the table index of the k-th perimeter vertex of an Arc
PerimeterIndex(shape, k) ==
    shape.vertices[IF shape.arc_mode \in {"PIE", None} THEN k + 1 ELSE k].i

\* C12: acc lies in 20..200, is 20 for every projected size up to 33.4
\* (16 * size^2 <= 17873), 200 for every projected size from 318.4 on
\* (16 * size^2 >= 1621139) and floor(2 * pi * size / 10) in between; the
\* stride inc = floor(len(SINCOS) / acc) is at least 1 and is the distance of
\* the first two perimeter vertices; of two Arcs the one of larger projected
\* size has the larger or equal acc and the smaller or equal inc.
C12_AccMonotone ==
    /\ \A a \in ArcsBuilt :
           LET radii == a[1]._radii
               acc == Acc(radii, a[2])
               inc == Inc(radii, a[2])
               size == SizeSq16(radii, a[2])
           IN /\ acc >= MIN_POINT_ACCURACY
              /\ acc <= MAX_POINT_ACCURACY
              /\ size <= 17873 => acc = MIN_POINT_ACCURACY
              /\ size >= 1621139 => acc = MAX_POINT_ACCURACY
              /\ (acc > MIN_POINT_ACCURACY /\ acc < MAX_POINT_ACCURACY) =>
                     LET m == (1000 * a[2].num * a[2].num * RadiiSq(radii))
                                  \div (a[2].den * a[2].den)
                     IN /\ 40528 * acc * acc <= m
                        /\ m < 40528 * (acc + 1) * (acc + 1)
              /\ inc >= 1
              /\ inc = SINCOS_LENGTH \div acc
              /\ PerimeterIndex(a[1], 2) - PerimeterIndex(a[1], 1) = inc
    /\ \A a, b \in ArcsBuilt :
           SizeLeq(a[1]._radii, a[2], b[1]._radii, b[2]) =>
               /\ Acc(a[1]._radii, a[2]) <= Acc(b[1]._radii, b[2])
               /\ Inc(a[1]._radii, a[2]) >= Inc(b[1]._radii, b[2])

C12_Witness ==
    /\ held # NoShape
    /\ outcome.shape # NoShape
    /\ outcome.shape.cls = "Arc"
    /\ SizeSq16(held._radii, heldTransform) > 17873
    /\ SizeSq16(held._radii, heldTransform)
           < SizeSq16(outcome.shape._radii, transform_matrix)
    /\ SizeSq16(outcome.shape._radii, transform_matrix) < 1621139
    /\ Acc(held._radii, heldTransform) > MIN_POINT_ACCURACY
    /\ Acc(held._radii, heldTransform)
           < Acc(outcome.shape._radii, transform_matrix)
    /\ Acc(outcome.shape._radii, transform_matrix) < MAX_POINT_ACCURACY

\* the held Arc's vertex list is the tessellation of its centre, radii,
\* angles and mode under the transform it was built under
HeldAsBuilt ==
    held # NoShape =>
        /\ held.vertices = _tessellate(held._center, held._radii,
                                       held._start_angle, held._stop_angle,
                                       held.arc_mode, heldTransform)
        /\ PerimeterIndex(held, 2) - PerimeterIndex(held, 1)
               = SINCOS_LENGTH \div Acc(held._radii, heldTransform)

\* a step leaves the held Arc as it is, or is the sketch keeping the Arc
\* just returned
HeldKept ==
    \/ UNCHANGED <<held, heldTransform>>
    \/ /\ outcome.status = "ok"
       /\ held' = outcome.shape
       /\ heldTransform' = transform_matrix
       /\ UNCHANGED <<call, outcome, transform_matrix>>

\* C13: an Arc's vertices are those computed at its construction from the
\* transform matrix of that instant: no transform change, mode change,
\* draw_shape call or construction of another shape changes the Arc a sketch
\* keeps.
C13_TessellatedOnce == [](HeldAsBuilt) /\ [][HeldKept]_vars

C13_Witness ==
    /\ held # NoShape
    /\ call.fn = "draw_shape"
    /\ outcome.rendered = <<held>>
    /\ transform_matrix # heldTransform
    /\ _ellipse_mode # "CENTER"
    /\ Inc(held._radii, transform_matrix) # Inc(held._radii, heldTransform)
    /\ held.vertices # _tessellate(held._center, held._radii,
                                   held._start_angle, held._stop_angle,
                                   held.arc_mode, transform_matrix)

\* the structure of an Arc's vertex list, from its fields and the transform
\* tm it was built under
ArcStructure(shape, tm) ==
    LET v == shape.vertices
        mode == shape.arc_mode
        center == shape._center
        radii == shape._radii
        inc == Inc(radii, tm)
        start_index == AngleIndex(shape._start_angle)
        stop_index == AngleIndex(shape._stop_angle)
        c == IF mode \in {"PIE", None} THEN 1 ELSE 0
        z == IF mode \in {"CHORD", "PIE"} THEN 1 ELSE 0
        n == Len(v) - c - z - 1
    IN /\ n >= 0
       /\ (v[1] = CenterVertex(center)) <=> (mode \in {"PIE", None})
       /\ \A k \in 1..n :
              /\ start_index + (k - 1) * inc < stop_index
              /\ v[c + k] = SinCosVertex(center, radii,
                                (start_index + (k - 1) * inc) % SINCOS_LENGTH)
       /\ start_index + n * inc >= stop_index
       /\ v[c + n + 1] = SinCosVertex(center, radii, stop_index % SINCOS_LENGTH)
       /\ z = 1 => v[Len(v)] = v[1]
       /\ shape.shape_type = (IF mode \in {"OPEN", "CHORD"}
                              THEN "TESS" ELSE "TRIANGLE_FAN")
       /\ shape._start_angle = shape._stop_angle => n = 0

\* C14: for an arc with start <= stop the vertex list is: the centre first
\* exactly when the mode is PIE or unset; then the perimeter vertices at the
\* table indices start_index, start_index + inc, ... strictly below stop_index,
\* taken modulo the table length; then exactly one vertex at the stop index;
\* then a copy of the first vertex exactly when the mode is CHORD or PIE.  The
\* topology is TESS for OPEN and CHORD and TRIANGLE_FAN otherwise, and a
\* zero-length span gives the stop vertex alone between centre and closure.
C14_ArcStructure ==
    /\ \A b \in ArcsBuilt : ArcStructure(b[1], b[2])
    /\ (call.fn = "arc" /\ Len(call.args) \in {5, 6}) =>
           LET a == call.args
               n == Len(a)
           IN /\ outcome.status = "ok"
              /\ outcome.shape.cls = "Arc"
              /\ outcome.shape._start_angle = a[n - 1].c[1]
              /\ outcome.shape._stop_angle = a[n].c[1]
              /\ outcome.shape.arc_mode = call.kw.mode
              /\ outcome.shape._start_angle <= outcome.shape._stop_angle

C14_Witness ==
    /\ held # NoShape
    /\ held.arc_mode = "CHORD"
    /\ held._start_angle = held._stop_angle
    /\ Len(held.vertices) = 2
    /\ call.fn = "arc"
    /\ outcome.status = "ok"
    /\ outcome.shape.arc_mode = "PIE"
    /\ outcome.shape._start_angle < 0
    /\ LET inc == Inc(outcome.shape._radii, transform_matrix)
           span == AngleIndex(outcome.shape._stop_angle)
                       - AngleIndex(outcome.shape._start_angle)
       IN /\ span % inc # 0
          /\ inc < span
          /\ Len(outcome.shape.vertices) = CeilDiv(span, inc) + 3

====
